---- MODULE Spec2Model ----
(***************************************************************************)
(* A model of the fixture generator (src/fixture_generator.py) and of the *)
(* Flask handlers that call it (src/app.py).                               *)
(*                                                                         *)
(* Python strings are TLA+ strings: "HH:MM" times, field names "c<n>",     *)
(* team names, zone labels and system codes are formatted, parsed and      *)
(* compared character by character, as the code does.  Python lists are    *)
(* sequences, tuples are tuples, dataclasses and dicts are records.  None  *)
(* is the empty tuple << >> for the two optional parameters.               *)
(***************************************************************************)
EXTENDS Integers, Sequences, FiniteSets, TLC

VARIABLES
    csv,                 \* rows of the CSV file the teams are imported from
    loaded_teams,        \* app.py global: list of Team
    current_schedule,    \* app.py global: list of Match
    request,             \* JSON body of the request being served
    response,            \* what the handler returned
    pc,                  \* position of the request handler
    calls,               \* number of requests served so far
    matches_unassigned,  \* generate_fixture local
    timeslot_absolute,   \* generate_fixture local
    match_pos,           \* position of the assignment loop in matches_unassigned
    last_played,         \* generate_fixture local: dict name -> absolute minutes
    schedule,            \* generate_fixture local: list of Match bound so far
    args,                \* arguments of the pure function under test
    ret,                 \* the value it returned
    called               \* whether it has been called

vars == <<csv, loaded_teams, current_schedule, request, response, pc, calls,
          matches_unassigned, timeslot_absolute, match_pos, last_played,
          schedule, args, ret, called>>

appVars == <<csv, loaded_teams, current_schedule, request, response, pc, calls,
             matches_unassigned, timeslot_absolute, match_pos, last_played,
             schedule>>

fnVars == <<args, ret, called>>

(***************************************************************************)
(* Bounds of the model.                                                    *)
(***************************************************************************)
MaxDays == 2
MaxFields == 2
MaxTeams == 4
MaxCap == 2
MaxCalls == 2
ManyFields == 10

(***************************************************************************)
(* Program constants.                                                      *)
(***************************************************************************)
MinutesPerHour == 60
HoursPerDay == 24
NeverPlayed == -1000000
SystemTeams == 24
GroupSize8x3 == 3
GroupSize4x6 == 6

None == << >>

(***************************************************************************)
(* Strings.                                                                *)
(***************************************************************************)
DigitChars == "0123456789"
UpperChars == "ABCDEFGHIJKLMNOPQRSTUVWXYZ"
LowerChars == "abcdefghijklmnopqrstuvwxyz"

CharAt(s, i) == SubSeq(s, i, i)

RECURSIVE IndexOf(_, _, _)
\* position of the first occurrence of character c in s at or after i, 0 if none
IndexOf(c, s, i) ==
    IF i > Len(s) THEN 0
    ELSE IF CharAt(s, i) = c THEN i
    ELSE IndexOf(c, s, i + 1)

\* ord(c) for the characters the model compares: digits, letters
Ord(c) ==
    IF IndexOf(c, DigitChars, 1) > 0 THEN 47 + IndexOf(c, DigitChars, 1)
    ELSE IF IndexOf(c, UpperChars, 1) > 0 THEN 64 + IndexOf(c, UpperChars, 1)
    ELSE 96 + IndexOf(c, LowerChars, 1)

RECURSIVE StrLess(_, _)
\* Python's a < b on str: lexicographic by code point, a proper prefix is less
StrLess(a, b) ==
    IF Len(b) = 0 THEN FALSE
    ELSE IF Len(a) = 0 THEN TRUE
    ELSE IF CharAt(a, 1) = CharAt(b, 1)
         THEN StrLess(SubSeq(a, 2, Len(a)), SubSeq(b, 2, Len(b)))
         ELSE Ord(CharAt(a, 1)) < Ord(CharAt(b, 1))

RECURSIVE ParseInt(_)
\* int(s) for a string of decimal digits
ParseInt(s) ==
    IF Len(s) = 0 THEN 0
    ELSE ParseInt(SubSeq(s, 1, Len(s) - 1)) * 10
         + (IndexOf(CharAt(s, Len(s)), DigitChars, 1) - 1)

RECURSIVE IntToStr(_)
\* str(n) for n >= 0
IntToStr(n) ==
    IF n < 10 THEN CharAt(DigitChars, n + 1)
    ELSE IntToStr(n \div 10) \o CharAt(DigitChars, (n % 10) + 1)

\* f"{n:02d}" for n >= 0
Format02d(n) == IF n < 10 THEN "0" \o IntToStr(n) ELSE IntToStr(n)

RECURSIVE Lower(_)
\* str.lower()
Lower(s) ==
    IF Len(s) = 0 THEN ""
    ELSE LET c == CharAt(s, 1)
             u == IndexOf(c, UpperChars, 1)
         IN  (IF u > 0 THEN CharAt(LowerChars, u) ELSE c)
             \o Lower(SubSeq(s, 2, Len(s)))

(***************************************************************************)
(* _time_to_minutes, _minutes_to_time                                      *)
(***************************************************************************)
_time_to_minutes(time_str) ==
    LET p == IndexOf(":", time_str, 1)
        h == ParseInt(SubSeq(time_str, 1, p - 1))
        m == ParseInt(SubSeq(time_str, p + 1, Len(time_str)))
    IN  h * MinutesPerHour + m

_minutes_to_time(minutes) ==
    LET h == minutes \div MinutesPerHour
        m == minutes % MinutesPerHour
    IN  Format02d(h) \o ":" \o Format02d(m)

(***************************************************************************)
(* _generate_timeslots: the slot enumerator.  st is the pair of locals     *)
(* (timeslots, index) the loops update.                                    *)
(***************************************************************************)
FieldName(field_num) == "c" \o IntToStr(field_num)

\* mutant of FieldLoop: "index += 1" is missing
FieldLoopIndexNotAdvanced(day, time_str, fields, st) ==
    [timeslots |-> st.timeslots \o [field_num \in 1..fields |->
                        <<day, time_str, FieldName(field_num), st.index>>],
     index |-> st.index]

\* for field_num in range(1, fields + 1): append the slot, index += 1
FieldLoop(day, time_str, fields, st) ==
    [timeslots |-> st.timeslots \o [field_num \in 1..fields |->
                        <<day, time_str, FieldName(field_num), st.index + (field_num - 1)>>],
     index |-> st.index + fields]

\* mutant of InBreak: "break_start < current" for "break_start <= current"
InBreakStrict(has_break, break_start, break_end, current) ==
    has_break /\ break_start < current /\ current < break_end

InBreak(has_break, break_start, break_end, current) ==
    has_break /\ break_start <= current /\ current < break_end

RECURSIVE WhileLoop(_, _, _, _, _, _, _, _, _)
WhileLoop(day, current, end_min, match_duration, has_break, break_start, break_end, fields, st) ==
    IF ~(current + match_duration <= end_min) THEN st
    ELSE IF InBreak(has_break, break_start, break_end, current)
         THEN WhileLoop(day, break_end, end_min, match_duration, has_break,
                        break_start, break_end, fields, st)
         ELSE WhileLoop(day, current + match_duration, end_min, match_duration,
                        has_break, break_start, break_end, fields,
                        FieldLoop(day, _minutes_to_time(current), fields, st))

RECURSIVE DayLoop(_, _, _, _, _, _, _, _, _, _)
DayLoop(day, days, start_min, end_min, match_duration, has_break, break_start, break_end, fields, st) ==
    IF day > days THEN st
    ELSE DayLoop(day + 1, days, start_min, end_min, match_duration, has_break,
                 break_start, break_end, fields,
                 WhileLoop(day, start_min, end_min, match_duration, has_break,
                           break_start, break_end, fields, st))

_generate_timeslots(days, fields, start_time, end_time, match_duration, midday_break) ==
    LET start_min == _time_to_minutes(start_time)
        end_min == _time_to_minutes(end_time)
        has_break == midday_break # None
        break_start == IF has_break THEN _time_to_minutes(midday_break[1]) ELSE 0
        break_end == IF has_break THEN _time_to_minutes(midday_break[2]) ELSE 0
    IN  DayLoop(1, days, start_min, end_min, match_duration, has_break,
                break_start, break_end, fields,
                [timeslots |-> << >>, index |-> 0]).timeslots

generate_timeslots_list(days, fields, start_time, end_time, match_duration, midday_break) ==
    LET raw_slots == _generate_timeslots(days, fields, start_time, end_time,
                                         match_duration, midday_break)
    IN  [i \in 1..Len(raw_slots) |->
            [day |-> raw_slots[i][1], time |-> raw_slots[i][2],
             field |-> raw_slots[i][3], index |-> raw_slots[i][4]]]

(***************************************************************************)
(* assign_zones.  The code sets team.zone in place and returns the same    *)
(* list: the value of this operator is the list the caller's Team objects  *)
(* hold afterwards.                                                        *)
(***************************************************************************)
Team(name, zone) == [name |-> name, zone |-> zone]

AllHaveZone(teams) == \A i \in 1..Len(teams) : teams[i].zone # ""

ZoneLabel(i) == CharAt(UpperChars, i + 1)

\* mutant of assign_zones: "system = system.lower()" is missing
assign_zones_case_sensitive(teams, system) ==
    IF AllHaveZone(teams) THEN teams
    ELSE LET n == Len(teams)
             group_size == IF system = "8x3" /\ n = SystemTeams THEN GroupSize8x3
                           ELSE IF system = "4x6" /\ n = SystemTeams THEN GroupSize4x6
                           ELSE 0
         IN  IF group_size = 0
             THEN [i \in 1..n |-> Team(teams[i].name, "A")]
             ELSE [i \in 1..n |-> Team(teams[i].name, ZoneLabel((i - 1) \div group_size))]

\* mutant of assign_zones: without the early return, and a team that
\* carries a zone loses it while a team without one gets its label
assign_zones_toggling(teams, system) ==
    LET n == Len(teams)
        sys == Lower(system)
        group_size == IF sys = "8x3" /\ n = SystemTeams THEN GroupSize8x3
                      ELSE IF sys = "4x6" /\ n = SystemTeams THEN GroupSize4x6
                      ELSE 0
    IN  [i \in 1..n |->
            Team(teams[i].name,
                 IF teams[i].zone # "" THEN ""
                 ELSE IF group_size = 0 THEN "A"
                 ELSE ZoneLabel((i - 1) \div group_size))]

assign_zones(teams, system) ==
    IF AllHaveZone(teams) THEN teams
    ELSE LET n == Len(teams)
             sys == Lower(system)
             group_size == IF sys = "8x3" /\ n = SystemTeams THEN GroupSize8x3
                           ELSE IF sys = "4x6" /\ n = SystemTeams THEN GroupSize4x6
                           ELSE 0
         IN  IF group_size = 0
             THEN [i \in 1..n |-> Team(teams[i].name, "A")]
             ELSE [i \in 1..n |-> Team(teams[i].name, ZoneLabel((i - 1) \div group_size))]

(***************************************************************************)
(* generate_round_robin: the circle method.                                *)
(***************************************************************************)
NotBye(pair) == pair[1] # "BYE" /\ pair[2] # "BYE"

RoundMatches(teams) ==
    LET n == Len(teams)
    IN  SelectSeq([i \in 1..(n \div 2) |-> <<teams[i], teams[n + 1 - i]>>], NotBye)

Rotate(teams) ==
    LET n == Len(teams)
    IN  <<teams[1]>> \o SubSeq(teams, n, n) \o SubSeq(teams, 2, n - 1)

RECURSIVE RoundLoop(_, _, _)
RoundLoop(teams, round_idx, rounds) ==
    IF round_idx >= Len(teams) - 1 THEN rounds
    ELSE RoundLoop(Rotate(teams), round_idx + 1, Append(rounds, RoundMatches(teams)))

Mirror(rnd) == [i \in 1..Len(rnd) |-> <<rnd[i][2], rnd[i][1]>>]

generate_round_robin(team_names, home_and_away) ==
    LET teams == IF Len(team_names) % 2 = 1 THEN Append(team_names, "BYE")
                 ELSE team_names
        rounds == RoundLoop(teams, 0, << >>)
    IN  IF home_and_away
        THEN rounds \o [r \in 1..Len(rounds) |-> Mirror(rounds[r])]
        ELSE rounds

(***************************************************************************)
(* Grouping by zone and the pending matches (generate_match_list and the   *)
(* first part of generate_fixture).                                        *)
(***************************************************************************)
RECURSIVE ZoneOrder(_, _, _)
\* keys of the dict zones, in insertion order
ZoneOrder(teams, i, keys) ==
    IF i > Len(teams) THEN keys
    ELSE IF \E k \in 1..Len(keys) : keys[k] = teams[i].zone
         THEN ZoneOrder(teams, i + 1, keys)
         ELSE ZoneOrder(teams, i + 1, Append(keys, teams[i].zone))

ZoneTeamNames(teams, zone_name) ==
    LET InZone(t) == t.zone = zone_name
        zone_teams == SelectSeq(teams, InZone)
    IN  [i \in 1..Len(zone_teams) |-> zone_teams[i].name]

RECURSIVE Flatten(_)
Flatten(seqs) ==
    IF Len(seqs) = 0 THEN << >> ELSE Head(seqs) \o Flatten(Tail(seqs))

\* the tuples (zone, home, away, round) of one zone
ZoneMatches(zone_name, team_names, home_and_away) ==
    LET rounds == generate_round_robin(team_names, home_and_away)
    IN  Flatten([r \in 1..Len(rounds) |->
                    [k \in 1..Len(rounds[r]) |->
                        <<zone_name, rounds[r][k][1], rounds[r][k][2], r>>]])

\* matches_unassigned of generate_fixture, from the teams with their zones
MatchesUnassigned(teams, home_and_away) ==
    LET keys == ZoneOrder(teams, 1, << >>)
    IN  Flatten([z \in 1..Len(keys) |->
                    ZoneMatches(keys[z], ZoneTeamNames(teams, keys[z]), home_and_away)])

\* generate_match_list: the teams as the call leaves them and the list returned
generate_match_list(teams, system, home_and_away) ==
    LET teams_with_zone == assign_zones(teams, system)
        tuples == MatchesUnassigned(teams_with_zone, home_and_away)
    IN  [teams |-> teams_with_zone,
         match_list |-> [i \in 1..Len(tuples) |->
                            [zone |-> tuples[i][1], home |-> tuples[i][2],
                             away |-> tuples[i][3], round |-> tuples[i][4]]]]

(***************************************************************************)
(* read_teams_from_csv.  A CSV row is a record [Zona, Equipos].            *)
(***************************************************************************)
RECURSIVE Strip(_)
\* str.strip() for blanks
Strip(s) ==
    IF Len(s) > 0 /\ CharAt(s, 1) = " " THEN Strip(SubSeq(s, 2, Len(s)))
    ELSE IF Len(s) > 0 /\ CharAt(s, Len(s)) = " " THEN Strip(SubSeq(s, 1, Len(s) - 1))
    ELSE s

read_teams_from_csv(rows) ==
    LET HasName(row) == Strip(row.Equipos) # ""
        named == SelectSeq(rows, HasName)
    IN  [i \in 1..Len(named) |-> Team(Strip(named[i].Equipos), Strip(named[i].Zona))]

(***************************************************************************)
(* generate_fixture: the greedy assignment.                                *)
(***************************************************************************)
Match(day, time, field, home, away, zone, round, match_id) ==
    [day |-> day, time |-> time, field |-> field, home |-> home, away |-> away,
     zone |-> zone, round |-> round, match_id |-> match_id]

RECURSIVE SortTimeslots(_)
\* timeslots.sort(key=lambda x: x[3]): a stable sort by index (the result of
\* a stable sort does not depend on the method; this one splits around the
\* middle slot)
SortTimeslots(timeslots) ==
    IF Len(timeslots) <= 1 THEN timeslots
    ELSE LET mid == (Len(timeslots) + 1) \div 2
             pivot == timeslots[mid]
             front == SubSeq(timeslots, 1, mid - 1)
             back == SubSeq(timeslots, mid + 1, Len(timeslots))
             Less(x) == x[4] < pivot[4]
             LessOrEqual(x) == x[4] <= pivot[4]
             Greater(x) == x[4] > pivot[4]
             GreaterOrEqual(x) == x[4] >= pivot[4]
         IN  SortTimeslots(SelectSeq(front, LessOrEqual) \o SelectSeq(back, Less))
                 \o <<pivot>>
                 \o SortTimeslots(SelectSeq(front, Greater) \o SelectSeq(back, GreaterOrEqual))

AbsoluteTime(day, time_str) ==
    (day - 1) * HoursPerDay * MinutesPerHour + _time_to_minutes(time_str)

TimeslotAbsolute(timeslots) ==
    [i \in 1..Len(timeslots) |->
        <<<<timeslots[i][1], timeslots[i][2], timeslots[i][3]>>,
          AbsoluteTime(timeslots[i][1], timeslots[i][2])>>]

\* last_played.get(name, -1_000_000)
LastPlayed(played, name) ==
    IF name \in DOMAIN played THEN played[name] ELSE NeverPlayed

\* mutant of SlotFree: the occupied-slot check is missing
SlotFreeAlways(idx, bound) == TRUE

\* idx in {m.match_id for m in schedule} is false
SlotFree(idx, bound) == idx \notin {bound[k].match_id : k \in 1..Len(bound)}

\* mutant of RestOk: the distance to the last match is taken on either side
RestOkEitherSide(abs_time, last, rest_minutes) ==
    ~((IF abs_time >= last THEN abs_time - last ELSE last - abs_time) < rest_minutes)

RestOk(abs_time, last, rest_minutes) == ~(abs_time - last < rest_minutes)

\* mutant of CapOk: "day_matches > max_matches_per_day" for ">="
CapOkOffByOne(max_matches_per_day, bound, day) ==
    \/ max_matches_per_day = None
    \/ ~(Cardinality({k \in 1..Len(bound) : bound[k].day = day}) > max_matches_per_day[1])

CapOk(max_matches_per_day, bound, day) ==
    \/ max_matches_per_day = None
    \/ ~(Cardinality({k \in 1..Len(bound) : bound[k].day = day}) >= max_matches_per_day[1])

\* mutant of Feasible: the rest of the away team is not checked
FeasibleHomeRestOnly(idx, slot, home, away, bound, played, rest_minutes, max_matches_per_day) ==
    /\ SlotFree(idx, bound)
    /\ RestOk(slot[2], LastPlayed(played, home), rest_minutes)
    /\ CapOk(max_matches_per_day, bound, slot[1][1])

\* the slot at position idx passes the three checks of the inner loop
Feasible(idx, slot, home, away, bound, played, rest_minutes, max_matches_per_day) ==
    /\ SlotFree(idx, bound)
    /\ RestOk(slot[2], LastPlayed(played, home), rest_minutes)
    /\ RestOk(slot[2], LastPlayed(played, away), rest_minutes)
    /\ CapOk(max_matches_per_day, bound, slot[1][1])

\* the inner loop: the first idx (from 0) whose slot is feasible, -1 if none
ScanSlots(slots, home, away, bound, played, rest_minutes, max_matches_per_day) ==
    LET feasible == {idx \in 0..(Len(slots) - 1) : Feasible(idx, slots[idx + 1], home, away, bound, played, rest_minutes, max_matches_per_day)}
    IN  IF feasible = {} THEN -1
        ELSE CHOOSE idx \in feasible : \A other \in feasible : idx <= other

\* the key of the final sort: (m.day, _time_to_minutes(m.time), m.field)
KeyLess(a, b) ==
    \/ a.day < b.day
    \/ a.day = b.day /\ _time_to_minutes(a.time) < _time_to_minutes(b.time)
    \/ a.day = b.day /\ _time_to_minutes(a.time) = _time_to_minutes(b.time)
                     /\ StrLess(a.field, b.field)

RECURSIVE SortSchedule(_)
\* schedule.sort(key=...): a stable sort
SortSchedule(bound) ==
    IF Len(bound) <= 1 THEN bound
    ELSE LET last == bound[Len(bound)]
             front == SortSchedule(SubSeq(bound, 1, Len(bound) - 1))
             NotAfter(x) == ~KeyLess(last, x)
             After(x) == KeyLess(last, x)
         IN  SelectSeq(front, NotAfter) \o <<last>> \o SelectSeq(front, After)

\* mutant of Renumber: enumerate(schedule) without start=1
RenumberFromZero(bound) ==
    [i \in 1..Len(bound) |-> [bound[i] EXCEPT !.match_id = i - 1]]

\* for idx, match in enumerate(schedule, start=1): match.match_id = idx
Renumber(bound) ==
    [i \in 1..Len(bound) |-> [bound[i] EXCEPT !.match_id = i]]

RECURSIVE AssignLoop(_, _, _, _, _, _, _)
\* the whole assignment loop from position pos: raised tells whether some
\* match found no slot (RuntimeError), schedule is the list bound otherwise
AssignLoop(pos, pending, slots, bound, played, rest_minutes, max_matches_per_day) ==
    IF pos > Len(pending) THEN [raised |-> FALSE, schedule |-> bound]
    ELSE LET m == pending[pos]
             idx == ScanSlots(slots, m[2], m[3], bound, played, rest_minutes, max_matches_per_day)
         IN  IF idx = -1 THEN [raised |-> TRUE, schedule |-> << >>]
             ELSE AssignLoop(pos + 1, pending, slots,
                     Append(bound, Match(slots[idx + 1][1][1], slots[idx + 1][1][2], slots[idx + 1][1][3], m[2], m[3], m[1], m[4], idx)),
                     [n \in DOMAIN played \cup {m[2], m[3]} |-> IF n \in {m[2], m[3]} THEN slots[idx + 1][2] ELSE played[n]],
                     rest_minutes, max_matches_per_day)

\* int(data.get('rest', match_duration))
RestOf(data) == IF data.rest = None THEN data.match_duration ELSE data.rest[1]

\* generate_fixture as one call on the given Team objects: the teams as the
\* call leaves them, whether it raised RuntimeError, and the list returned
generate_fixture(teams, data) ==
    LET zoned == assign_zones(teams, data.system)
        pending == MatchesUnassigned(zoned, data.home_and_away)
        slots == TimeslotAbsolute(SortTimeslots(_generate_timeslots(data.days, data.fields, data.start_time, data.end_time, data.match_duration, data.midday_break)))
        run == AssignLoop(1, pending, slots, << >>, << >>, RestOf(data), data.max_matches_per_day)
    IN  [teams |-> zoned,
         pending |-> pending,
         raised |-> run.raised,
         schedule |-> Renumber(SortSchedule(run.schedule))]

(***************************************************************************)
(* The request handlers of app.py.  /generate runs generate_fixture step   *)
(* by step: one step per pending match.  The locals of generate_fixture    *)
(* keep their last values until the next call sets them again.             *)
(***************************************************************************)
NoTeamsLoaded == "No hay equipos cargados."
NoSlotFound == "No se pudo asignar un horario a todos los partidos."

\* /import_teams
ImportTeams ==
    /\ pc # "assigning"
    /\ loaded_teams' = read_teams_from_csv(csv)
    /\ request' = [route |-> "import_teams"]
    /\ response' = [status |-> 200, teams |-> loaded_teams']
    /\ pc' = "responded"
    /\ calls' = calls + 1
    /\ UNCHANGED <<csv, current_schedule, matches_unassigned, timeslot_absolute, match_pos, last_played, schedule, fnVars>>

\* /generate up to the assignment loop of generate_fixture
StartGenerate(data) ==
    /\ pc # "assigning"
    /\ request' = [data EXCEPT !.route = "generate"]
    /\ calls' = calls + 1
    /\ LET teams == IF data.teams_csv THEN read_teams_from_csv(csv) ELSE loaded_teams
       IN  IF teams = << >>
           THEN /\ loaded_teams' = teams
                /\ response' = [status |-> 400, error |-> NoTeamsLoaded]
                /\ pc' = "responded"
                /\ UNCHANGED <<matches_unassigned, timeslot_absolute, match_pos, last_played, schedule>>
           ELSE /\ loaded_teams' = assign_zones(teams, data.system)
                /\ matches_unassigned' = MatchesUnassigned(loaded_teams', data.home_and_away)
                /\ timeslot_absolute' = TimeslotAbsolute(SortTimeslots(_generate_timeslots(data.days, data.fields, data.start_time, data.end_time, data.match_duration, data.midday_break)))
                /\ last_played' = << >>
                /\ schedule' = << >>
                /\ match_pos' = 1
                /\ response' = << >>
                /\ pc' = "assigning"
    /\ UNCHANGED <<csv, current_schedule, fnVars>>

\* the position of the slot the inner loop picks for the next pending match
NextSlot ==
    ScanSlots(timeslot_absolute, matches_unassigned[match_pos][2], matches_unassigned[match_pos][3], schedule, last_played, RestOf(request), request.max_matches_per_day)

\* one pass of the outer loop in which the inner loop finds a slot
AssignMatch ==
    /\ pc = "assigning"
    /\ match_pos <= Len(matches_unassigned)
    /\ NextSlot # -1
    /\ LET m == matches_unassigned[match_pos]
           idx == NextSlot
           slot == timeslot_absolute[idx + 1]
       IN  /\ schedule' = Append(schedule, Match(slot[1][1], slot[1][2], slot[1][3], m[2], m[3], m[1], m[4], idx))
           /\ last_played' = [n \in DOMAIN last_played \cup {m[2], m[3]} |-> IF n \in {m[2], m[3]} THEN slot[2] ELSE last_played[n]]
    /\ match_pos' = match_pos + 1
    /\ UNCHANGED <<csv, loaded_teams, current_schedule, request, response, pc, calls, matches_unassigned, timeslot_absolute, fnVars>>

\* mutant of RaiseNoSlot: the match without a slot is left out and the loop goes on
SkipMatchWithoutSlot ==
    /\ pc = "assigning"
    /\ match_pos <= Len(matches_unassigned)
    /\ NextSlot = -1
    /\ match_pos' = match_pos + 1
    /\ UNCHANGED <<csv, loaded_teams, current_schedule, request, response, pc, calls, matches_unassigned, timeslot_absolute, last_played, schedule, fnVars>>

\* one pass of the outer loop in which no slot is found: RuntimeError, which
\* /generate answers with status 400
RaiseNoSlot ==
    /\ pc = "assigning"
    /\ match_pos <= Len(matches_unassigned)
    /\ NextSlot = -1
    /\ response' = [status |-> 400, error |-> NoSlotFound]
    /\ pc' = "responded"
    /\ UNCHANGED <<csv, loaded_teams, current_schedule, request, calls, matches_unassigned, timeslot_absolute, match_pos, last_played, schedule, fnVars>>

\* the end of generate_fixture and of /generate: sort, renumber, answer
ReturnSchedule ==
    /\ pc = "assigning"
    /\ match_pos > Len(matches_unassigned)
    /\ schedule' = Renumber(SortSchedule(schedule))
    /\ current_schedule' = schedule'
    /\ response' = [status |-> 200, schedule |-> schedule']
    /\ pc' = "responded"
    /\ UNCHANGED <<csv, loaded_teams, request, calls, matches_unassigned, timeslot_absolute, match_pos, last_played, fnVars>>

\* /generate_parts
GenerateParts(data) ==
    /\ pc # "assigning"
    /\ request' = [data EXCEPT !.route = "generate_parts"]
    /\ calls' = calls + 1
    /\ LET teams == IF data.teams_csv THEN read_teams_from_csv(csv) ELSE loaded_teams
       IN  IF teams = << >>
           THEN /\ loaded_teams' = teams
                /\ response' = [status |-> 400, error |-> NoTeamsLoaded]
           ELSE /\ loaded_teams' = generate_match_list(teams, data.system, data.home_and_away).teams
                /\ response' = [status |-> 200,
                                timeslots |-> generate_timeslots_list(data.days, data.fields, data.start_time, data.end_time, data.match_duration, data.midday_break),
                                matches |-> generate_match_list(teams, data.system, data.home_and_away).match_list]
    /\ pc' = "responded"
    /\ UNCHANGED <<csv, current_schedule, matches_unassigned, timeslot_absolute, match_pos, last_played, schedule, fnVars>>

(***************************************************************************)
(* The slot enumerator under test: Init draws its arguments, the action    *)
(* calls it.                                                               *)
(***************************************************************************)
Durations == {30, 45, 60}
StartTimes == {"09:00", "09:30"}
EndTimes == {"08:00", "09:45", "11:00", "12:00"}
Breaks == {None, <<"09:30", "10:00">>, <<"10:00", "10:45">>, <<"08:00", "09:15">>,
           <<"11:00", "13:00">>, <<"10:30", "10:00">>}

SlotArgs ==
    [days : 1..MaxDays, fields : 1..MaxFields, start_time : StartTimes,
     end_time : EndTimes, match_duration : Durations, midday_break : Breaks]

IdleApp ==
    /\ csv = << >>
    /\ loaded_teams = << >>
    /\ current_schedule = << >>
    /\ request = << >>
    /\ response = << >>
    /\ pc = "off"
    /\ calls = 0
    /\ matches_unassigned = << >>
    /\ timeslot_absolute = << >>
    /\ match_pos = 0
    /\ last_played = << >>
    /\ schedule = << >>

InitSlots ==
    /\ IdleApp
    /\ args \in SlotArgs
    /\ ret = << >>
    /\ called = FALSE

CallTimeslotsList ==
    /\ ~called
    /\ ret' = generate_timeslots_list(args.days, args.fields, args.start_time,
                                      args.end_time, args.match_duration,
                                      args.midday_break)
    /\ called' = TRUE
    /\ UNCHANGED <<args, appVars>>

NextSlots == CallTimeslotsList

SpecSlots == InitSlots /\ [][NextSlots]_vars

(***************************************************************************)
(* Claims about the slot enumerator (checked under SpecSlots).             *)
(***************************************************************************)
SlotKey(s) == <<s.day, s.time, s.field>>

SlotsOfDay(slots, day) == {i \in 1..Len(slots) : slots[i].day = day}

Max2(a, b) == IF a >= b THEN a ELSE b
Min2(a, b) == IF a <= b THEN a ELSE b

\* minutes of the break window [break_start, break_end) inside [start, end)
BreakOverlap(a) ==
    IF a.midday_break = None THEN 0
    ELSE Max2(0, Min2(_time_to_minutes(a.midday_break[2]), _time_to_minutes(a.end_time))
                 - Max2(_time_to_minutes(a.midday_break[1]), _time_to_minutes(a.start_time)))

\* fields * floor((end - start - break_duration_overlap) / match_duration)
SlotCountFormula(a) ==
    a.fields * ((_time_to_minutes(a.end_time) - _time_to_minutes(a.start_time)
                 - BreakOverlap(a)) \div a.match_duration)

\* some emitted slot starts before the break starts and ends after it
StraddlesBreak(a, slots) ==
    /\ a.midday_break # None
    /\ \E i \in 1..Len(slots) :
          LET t == _time_to_minutes(slots[i].time)
              bs == _time_to_minutes(a.midday_break[1])
          IN  t < bs /\ bs < t + a.match_duration

\* C9: the index values of the emitted slots, in emission order, are exactly
\* 0, 1, ..., k-1, and no two emitted slots share (day, time, field).
C9_IndexGapFreeAndSlotsUnique ==
    called =>
        /\ \A i \in 1..Len(ret) : ret[i].index = i - 1
        /\ \A i, j \in 1..Len(ret) : i # j => SlotKey(ret[i]) # SlotKey(ret[j])

\* C9 witness: a run with a midday break that emitted slots on several
\* days, times and fields.
C9_Witness ==
    /\ called
    /\ args.midday_break # None
    /\ args.days >= 2 /\ args.fields >= 2
    /\ Len(ret) >= 8
    /\ \E i, j \in 1..Len(ret) : ret[i].day = ret[j].day /\ ret[i].time # ret[j].time

\* C10 as stated: on every day the number of emitted slots equals
\* fields * floor((end - start - break_duration_overlap) / match_duration).
C10_SlotCountAsStated ==
    called =>
        \A day \in 1..args.days :
            Cardinality(SlotsOfDay(ret, day)) = SlotCountFormula(args)

\* C10 amended: when end >= start the number of slots of every day is at least
\* fields * floor((end - start - break_duration_overlap) / match_duration),
\* and equals it when no emitted slot starts before the break's start and
\* ends after it.
C10_SlotCountAmended ==
    (called /\ _time_to_minutes(args.end_time) >= _time_to_minutes(args.start_time)) =>
        \A day \in 1..args.days :
            /\ Cardinality(SlotsOfDay(ret, day)) >= SlotCountFormula(args)
            /\ ~StraddlesBreak(args, ret) =>
                   Cardinality(SlotsOfDay(ret, day)) = SlotCountFormula(args)

\* C10 witness: a break inside the window was jumped over, no slot straddles
\* its start, and slots were emitted before and after it.
C10_Witness ==
    /\ called
    /\ args.midday_break # None
    /\ BreakOverlap(args) > 0
    /\ ~StraddlesBreak(args, ret)
    /\ \E i, j \in 1..Len(ret) :
          /\ _time_to_minutes(ret[i].time) < _time_to_minutes(args.midday_break[1])
          /\ _time_to_minutes(ret[j].time) >= _time_to_minutes(args.midday_break[2])

(***************************************************************************)
(* The round-robin generator under test.                                   *)
(***************************************************************************)
TeamName(i) == "T" \o IntToStr(i)

NamePool == {TeamName(i) : i \in 1..MaxTeams} \cup {"BYE"}

DistinctNameLists ==
    {l \in UNION {[1..k -> NamePool] : k \in 1..MaxTeams} :
        \A i, j \in 1..Len(l) : i # j => l[i] # l[j]}

InitRR ==
    /\ IdleApp
    /\ args \in [team_names : DistinctNameLists, home_and_away : BOOLEAN]
    /\ ret = << >>
    /\ called = FALSE

CallRoundRobin ==
    /\ ~called
    /\ ret' = generate_round_robin(args.team_names, args.home_and_away)
    /\ called' = TRUE
    /\ UNCHANGED <<args, appVars>>

NextRR == CallRoundRobin

SpecRR == InitRR /\ [][NextRR]_vars

(***************************************************************************)
(* Claims about the round-robin generator (checked under SpecRR).          *)
(***************************************************************************)
\* positions <<round, k>> at which teams a and b meet
Meetings(rounds, a, b) ==
    {p \in UNION {{<<r, k>> : k \in 1..Len(rounds[r])} : r \in 1..Len(rounds)} :
        {rounds[p[1]][p[2]][1], rounds[p[1]][p[2]][2]} = {a, b}}

PairsMeetAsClaimed(names, home_and_away, rounds) ==
    \A i, j \in 1..Len(names) :
        i < j =>
            LET a == names[i]
                b == names[j]
                all == Meetings(rounds, a, b)
                half == Len(rounds) \div 2
                first == {p \in all : p[1] <= half}
                second == {p \in all : p[1] > half}
            IN  IF ~home_and_away
                THEN Cardinality(all) = 1
                ELSE /\ Cardinality(first) = 1
                     /\ Cardinality(second) = 1
                     /\ \A p \in first, q \in second :
                           /\ rounds[q[1]][q[2]][1] = rounds[p[1]][p[2]][2]
                           /\ rounds[q[1]][q[2]][2] = rounds[p[1]][p[2]][1]

\* C6 as stated: for every list of n >= 2 distinct names, one-legged every
\* unordered pair of names meets in exactly one round, once; two-legged every
\* pair meets exactly twice, once in each pass, with home and away swapped.
C6_EveryPairMeets ==
    (called /\ Len(args.team_names) >= 2) =>
        PairsMeetAsClaimed(args.team_names, args.home_and_away, ret)

\* C6 for lists in which no team is named "BYE": the same statement.
C6_EveryPairMeetsUnlessNamedBye ==
    (called /\ Len(args.team_names) >= 2
            /\ \A i \in 1..Len(args.team_names) : args.team_names[i] # "BYE") =>
        PairsMeetAsClaimed(args.team_names, args.home_and_away, ret)

\* an odd and a two-legged list without a team named "BYE" were scheduled
C6_WitnessNoBye ==
    /\ called
    /\ Len(args.team_names) = 3
    /\ args.home_and_away
    /\ \A i \in 1..Len(args.team_names) : args.team_names[i] # "BYE"
    /\ Len(ret) = 6

(***************************************************************************)
(* The zone assigner and the match assembler under test.                   *)
(***************************************************************************)
ZoneTeamCounts == (1..MaxTeams) \cup {SystemTeams - 1, SystemTeams}

\* zones as the CSV gives them: none, one for every team, one for the first team only
ZonePatterns == {"none", "all", "first"}

CsvZone(pattern, i) ==
    IF pattern = "all" THEN (IF i % 2 = 1 THEN "N" ELSE "S")
    ELSE IF pattern = "first" /\ i = 1 THEN "N"
    ELSE ""

\* n teams T1..Tn; team number bye (if any) is named "BYE" instead
TeamList(n, pattern, bye) ==
    [i \in 1..n |-> Team(IF i = bye THEN "BYE" ELSE TeamName(i), CsvZone(pattern, i))]

Systems == {"rr", "8x3", "8X3", "4x6", "4X6", "liga"}

ZoneArgs ==
    {[teams |-> TeamList(n, pattern, bye), system |-> system, home_and_away |-> hna] :
        n \in ZoneTeamCounts, pattern \in ZonePatterns, bye \in {0, 2},
        system \in Systems, hna \in BOOLEAN}

InitZones ==
    /\ IdleApp
    /\ args \in ZoneArgs
    /\ ret = << >>
    /\ called = FALSE

CallMatchList ==
    /\ ~called
    /\ ret' = generate_match_list(args.teams, args.system, args.home_and_away)
    /\ called' = TRUE
    /\ UNCHANGED <<args, appVars>>

NextZones == CallMatchList

SpecZones == InitZones /\ [][NextZones]_vars

(***************************************************************************)
(* Claims about the zone assigner and the match assembler (checked under   *)
(* SpecZones).                                                             *)
(***************************************************************************)
EightZones == "ABCDEFGH"

\* 8 zones of 3 teams each, contiguous in input order, labelled 'A'..'H'
EightByThree(teams) ==
    /\ Len(teams) = 24
    /\ \A i \in 1..Len(teams) : teams[i].zone = CharAt(EightZones, ((i - 1) \div 3) + 1)

ZoneOfName(teams, name) ==
    (CHOOSE i \in 1..Len(teams) : teams[i].name = name)

MatchesOfZone(match_list, zone) ==
    {k \in 1..Len(match_list) : match_list[k].zone = zone}

NoCrossZonePairing(teams, match_list) ==
    \A k \in 1..Len(match_list) :
        /\ teams[ZoneOfName(teams, match_list[k].home)].zone = match_list[k].zone
        /\ teams[ZoneOfName(teams, match_list[k].away)].zone = match_list[k].zone

EveryTeamCarriesZone(teams) == \A i \in 1..Len(teams) : teams[i].zone # ""

RecognizedFor24(system) == system \in {"8x3", "8X3", "4x6", "4X6"}

AllInZoneA(teams) == \A i \in 1..Len(teams) : teams[i].zone = "A"

HasTeamNamedBye(teams, zone) ==
    \E i \in 1..Len(teams) : teams[i].zone = zone /\ teams[i].name = "BYE"

\* C7 as stated: 24 teams and '8x3' in any letter case give 8 contiguous
\* zones of 3 labelled 'A'..'H', 3 one-legged matches per zone, 24 in all,
\* none across zones; any unrecognized code or other team count puts every
\* team in zone 'A'.
C7_ZonesAsStated ==
    called =>
        /\ (Len(args.teams) = 24 /\ args.system \in {"8x3", "8X3"}) =>
              /\ EightByThree(ret.teams)
              /\ ~args.home_and_away =>
                    /\ Len(ret.match_list) = 24
                    /\ \A z \in 1..8 :
                          Cardinality(MatchesOfZone(ret.match_list, CharAt(EightZones, z))) = 3
                    /\ NoCrossZonePairing(ret.teams, ret.match_list)
        /\ ~(Len(args.teams) = 24 /\ RecognizedFor24(args.system)) =>
              AllInZoneA(ret.teams)

\* C7 amended: the same when at least one team carries no zone (teams that
\* all carry a zone keep their zones whatever the code and the count); a
\* zone with a team named "BYE" yields 1 match instead of 3 (see C6).
C7_ZonesUnlessAlreadyZoned ==
    called =>
        /\ EveryTeamCarriesZone(args.teams) => ret.teams = args.teams
        /\ (~EveryTeamCarriesZone(args.teams) /\ Len(args.teams) = 24
                /\ args.system \in {"8x3", "8X3"}) =>
              /\ EightByThree(ret.teams)
              /\ ~args.home_and_away =>
                    /\ \A z \in 1..8 :
                          Cardinality(MatchesOfZone(ret.match_list, CharAt(EightZones, z)))
                              = IF HasTeamNamedBye(ret.teams, CharAt(EightZones, z))
                                THEN 1 ELSE 3
                    /\ (\A i \in 1..24 : args.teams[i].name # "BYE") =>
                           Len(ret.match_list) = 24
                    /\ NoCrossZonePairing(ret.teams, ret.match_list)
        /\ (~EveryTeamCarriesZone(args.teams)
                /\ ~(Len(args.teams) = 24 /\ RecognizedFor24(args.system))) =>
              AllInZoneA(ret.teams)

\* C7 witness: 24 teams without zones and code '8X3' gave 24 one-legged matches
C7_Witness ==
    /\ called
    /\ Len(args.teams) = 24
    /\ ~EveryTeamCarriesZone(args.teams)
    /\ args.system = "8X3"
    /\ ~args.home_and_away
    /\ Len(ret.match_list) = 24
    /\ ret.teams[24].zone = "H"

(***************************************************************************)
(* The zone assigner called twice in a row on the same Team objects with   *)
(* the same system code.  ret is the list of the teams as each call left   *)
(* them.                                                                   *)
(***************************************************************************)
IdemTeamCounts == (0..MaxTeams) \cup {SystemTeams - 1, SystemTeams}

IdemArgs ==
    {[teams |-> TeamList(n, pattern, bye), system |-> system] :
        n \in IdemTeamCounts, pattern \in ZonePatterns, bye \in {0, 2},
        system \in Systems}

InitIdem ==
    /\ IdleApp
    /\ args \in IdemArgs
    /\ ret = << >>
    /\ called = FALSE

\* teams = assign_zones(teams, system): the call works on the list the
\* previous call returned
CallAssignZones ==
    /\ Len(ret) < 2
    /\ ret' = Append(ret, assign_zones(IF ret = << >> THEN args.teams ELSE ret[Len(ret)],
                                       args.system))
    /\ called' = TRUE
    /\ UNCHANGED <<args, appVars>>

NextIdem == CallAssignZones

SpecIdem == InitIdem /\ [][NextIdem]_vars

SameZones(a, b) ==
    /\ Len(a) = Len(b)
    /\ \A i \in 1..Len(a) : a[i].name = b[i].name /\ a[i].zone = b[i].zone

\* C11: a second call of assign_zones on the result of a first call, with
\* the same system code, leaves every team's zone exactly as the first call
\* set it, for every team list and system code.
C11_AssignZonesIdempotent ==
    Len(ret) = 2 => SameZones(ret[1], ret[2])

\* C11 witness: 24 teams of which only the first carried a zone were grouped
\* by the first call ('8X3') and called a second time
C11_Witness ==
    /\ Len(ret) = 2
    /\ Len(args.teams) = SystemTeams
    /\ args.teams[1].zone = "N"
    /\ args.teams[2].zone = ""
    /\ args.system = "8X3"
    /\ ret[1][1].zone = "A"
    /\ ret[1][SystemTeams].zone = "H"
    /\ SameZones(ret[1], ret[2])

(***************************************************************************)
(* The scheduler: one /generate request on teams already imported.         *)
(***************************************************************************)
\* the CSV file of n teams T1..Tn (team bye, if any, is named "BYE");
\* the names of the odd rows are padded with a blank
CsvFile(n, pattern, bye) ==
    [i \in 1..n |->
        [Zona |-> CsvZone(pattern, i),
         Equipos |-> (IF i = bye THEN "BYE" ELSE TeamName(i)) \o (IF i % 2 = 1 THEN " " ELSE "")]]

CsvFiles ==
    {CsvFile(n, pattern, 0) : n \in 2..MaxTeams, pattern \in {"none", "all"}}
        \cup {CsvFile(MaxTeams, "none", 1)}

Rests == {None, <<0>>, <<120>>, <<240>>}

Caps == {None} \cup {<<c>> : c \in 1..MaxCap}

Requests ==
    [route : {"generate"}, teams_csv : {FALSE}, system : {"rr"},
     days : 1..MaxDays, fields : (1..MaxFields) \cup {ManyFields},
     start_time : {"09:00"}, end_time : {"10:00", "12:00"}, match_duration : {45, 60},
     rest : Rests, midday_break : {None, <<"10:00", "11:00">>},
     home_and_away : BOOLEAN, max_matches_per_day : Caps]

NoFunctionCall ==
    /\ args = << >>
    /\ ret = << >>
    /\ called = FALSE

Init ==
    /\ csv \in CsvFiles
    /\ loaded_teams = read_teams_from_csv(csv)
    /\ current_schedule = << >>
    /\ request = << >>
    /\ response = << >>
    /\ pc = "idle"
    /\ calls = 0
    /\ matches_unassigned = << >>
    /\ timeslot_absolute = << >>
    /\ match_pos = 0
    /\ last_played = << >>
    /\ schedule = << >>
    /\ NoFunctionCall

Next ==
    \/ calls = 0 /\ \E data \in Requests : StartGenerate(data)
    \/ AssignMatch
    \/ RaiseNoSlot
    \/ ReturnSchedule

Spec == Init /\ [][Next]_vars

(***************************************************************************)
(* The application: a sequence of requests on the process-wide state.      *)
(***************************************************************************)
AppCsvFiles ==
    {CsvFile(SystemTeams, "none", 0), CsvFile(3, "none", 0), CsvFile(4, "all", 0), CsvFile(3, "first", 0)}

AppRequests ==
    [route : {"any"}, teams_csv : BOOLEAN, system : {"rr", "8x3", "4x6"},
     days : {1}, fields : 1..2,
     start_time : {"09:00"}, end_time : {"11:00"}, match_duration : {60},
     rest : {None}, midday_break : {None},
     home_and_away : BOOLEAN, max_matches_per_day : {None}]

InitApp ==
    /\ csv \in AppCsvFiles
    /\ loaded_teams = << >>
    /\ current_schedule = << >>
    /\ request = << >>
    /\ response = << >>
    /\ pc = "idle"
    /\ calls = 0
    /\ matches_unassigned = << >>
    /\ timeslot_absolute = << >>
    /\ match_pos = 0
    /\ last_played = << >>
    /\ schedule = << >>
    /\ NoFunctionCall

NextApp ==
    \/ calls < MaxCalls /\ ImportTeams
    \/ calls < MaxCalls /\ \E data \in AppRequests : StartGenerate(data)
    \/ calls < MaxCalls /\ \E data \in AppRequests : GenerateParts(data)
    \/ AssignMatch
    \/ RaiseNoSlot
    \/ ReturnSchedule

SpecApp == InitApp /\ [][NextApp]_vars

(***************************************************************************)
(* Claims about the scheduler (checked under Spec).                        *)
(***************************************************************************)
\* /generate answered with a schedule
Returned ==
    /\ pc = "responded"
    /\ request.route = "generate"
    /\ response.status = 200

\* (day - 1) * 1440 + minutes of day
StartMinute(m) ==
    (m.day - 1) * 1440
        + ParseInt(SubSeq(m.time, 1, 2)) * 60 + ParseInt(SubSeq(m.time, 4, 5))

Abs(x) == IF x >= 0 THEN x ELSE -x

SharesTeam(m1, m2) == {m1.home, m1.away} \cap {m2.home, m2.away} # {}

RestKept(bound, rest) ==
    \A i, j \in 1..Len(bound) :
        (i # j /\ SharesTeam(bound[i], bound[j])) =>
            Abs(StartMinute(bound[i]) - StartMinute(bound[j])) >= rest

\* C1: in every successful run any two matches of the returned schedule with
\* a team in common start at least rest minutes apart in absolute time.
C1_RestBetweenMatchesOfATeam ==
    Returned => RestKept(response.schedule, RestOf(request))

\* C1 witness: a schedule was returned for rest 120 on 2 fields in which a
\* team plays twice on the same day.
C1_Witness ==
    /\ Returned
    /\ RestOf(request) = 120
    /\ request.fields = 2
    /\ \E i, j \in 1..Len(response.schedule) :
          /\ i # j
          /\ SharesTeam(response.schedule[i], response.schedule[j])
          /\ response.schedule[i].day = response.schedule[j].day

NoSharedSlot(bound) ==
    \A i, j \in 1..Len(bound) :
        i # j => <<bound[i].day, bound[i].time, bound[i].field>>
                    # <<bound[j].day, bound[j].time, bound[j].field>>

\* C2: at every point of the assignment loop and in the returned schedule no
\* two bound matches share the same (day, time, field).
C2_NoTwoMatchesShareASlot ==
    /\ pc = "assigning" => NoSharedSlot(schedule)
    /\ Returned => NoSharedSlot(response.schedule)

\* C2 witness: the loop has bound two matches to the two fields of one time.
C2_Witness ==
    /\ pc = "assigning"
    /\ \E i, j \in 1..Len(schedule) :
          /\ schedule[i].day = schedule[j].day
          /\ schedule[i].time = schedule[j].time
          /\ schedule[i].field # schedule[j].field

MatchesOnDay(bound, day) == Cardinality({k \in 1..Len(bound) : bound[k].day = day})

CapKept(bound, cap) ==
    cap # None => \A k \in 1..Len(bound) : MatchesOnDay(bound, bound[k].day) <= cap[1]

\* C3: when max_matches_per_day is set, at every point of the assignment loop
\* and in the returned schedule no day holds more matches than the cap.
C3_DailyCapKept ==
    /\ pc = "assigning" => CapKept(schedule, request.max_matches_per_day)
    /\ Returned => CapKept(response.schedule, request.max_matches_per_day)

\* C3 witness: with cap 1 and 2 fields a returned schedule spreads its
\* matches over two days.
C3_Witness ==
    /\ Returned
    /\ request.max_matches_per_day = <<1>>
    /\ request.fields = 2
    /\ Len(response.schedule) = 2
    /\ response.schedule[2].day = 2

\* the absolute time of the last match bound so far for a team, if any
LastBound(bound, name) ==
    LET mine == {k \in 1..Len(bound) : name \in {bound[k].home, bound[k].away}}
    IN  IF mine = {} THEN << >>
        ELSE <<StartMinute(bound[CHOOSE k \in mine : \A l \in mine : l <= k])>>

\* slot number k is free, rested for both teams of match m and under the cap
SlotFits(k, m) ==
    LET slot == timeslot_absolute[k]
        day == slot[1][1]
        at == (day - 1) * 1440 + ParseInt(SubSeq(slot[1][2], 1, 2)) * 60 + ParseInt(SubSeq(slot[1][2], 4, 5))
    IN  /\ \A i \in 1..Len(schedule) :
              <<schedule[i].day, schedule[i].time, schedule[i].field>> # slot[1]
        /\ \A name \in {m[2], m[3]} :
              LastBound(schedule, name) # << >> =>
                  at - LastBound(schedule, name)[1] >= RestOf(request)
        /\ request.max_matches_per_day # None =>
              MatchesOnDay(schedule, day) < request.max_matches_per_day[1]

\* the pending match whose turn it is has no slot that fits
NoSlotFits ==
    /\ pc = "assigning"
    /\ match_pos <= Len(matches_unassigned)
    /\ \A k \in 1..Len(timeslot_absolute) : ~SlotFits(k, matches_unassigned[match_pos])

\* C4: when the pending match whose turn it is has no slot that is free,
\* rested for both teams and under the cap, the run ends with the
\* infeasibility failure: an error answer without any schedule, and the
\* schedule kept by the application is not replaced by a partial one.
C4_NoSlotAbortsWithoutSchedule ==
    [][NoSlotFits =>
          /\ pc' = "responded"
          /\ response' = [status |-> 400, error |-> NoSlotFound]
          /\ current_schedule' = current_schedule]_vars

\* C4 witness: 1 day, 1 field, 2 teams playing home and away, rest longer
\* than the window: the first leg was bound, the second found no slot, and
\* the answer is the error.
C4_Witness ==
    /\ pc = "responded"
    /\ response = [status |-> 400, error |-> NoSlotFound]
    /\ request.days = 1 /\ request.fields = 1
    /\ Len(loaded_teams) = 2
    /\ request.home_and_away
    /\ request.end_time = "12:00" /\ RestOf(request) = 240
    /\ Len(schedule) = 1
    /\ Len(timeslot_absolute) > Len(schedule)

\* a strictly before b in (day, time of day, field name) order
SlotBefore(a, b) ==
    \/ a.day < b.day
    \/ a.day = b.day /\ StartMinute(a) < StartMinute(b)
    \/ a.day = b.day /\ StartMinute(a) = StartMinute(b) /\ StrLess(a.field, b.field)

\* C5: a returned list holds every pending match exactly once, its match_id
\* values are 1..N in list order, and the list is strictly increasing in
\* (day, time of day, field name).
C5_AllMatchesNumberedInSlotOrder ==
    Returned =>
        LET out == response.schedule
            N == Len(matches_unassigned)
        IN  /\ Len(out) = N
            /\ \A k \in 1..N :
                  Cardinality({i \in 1..Len(out) :
                      <<out[i].zone, out[i].home, out[i].away, out[i].round>>
                          = matches_unassigned[k]}) = 1
            /\ {out[i].match_id : i \in 1..Len(out)} = 1..N
            /\ \A i \in 1..Len(out) : out[i].match_id = i
            /\ \A i, j \in 1..Len(out) :
                  i < j => SlotBefore(out[i], out[j]) /\ out[i].match_id < out[j].match_id

\* C5 witness: a returned list of at least 4 matches whose binding order
\* differs from its final order.
C5_Witness ==
    /\ Returned
    /\ Len(response.schedule) >= 4
    /\ \E i \in 1..Len(response.schedule) :
          <<response.schedule[i].zone, response.schedule[i].home,
            response.schedule[i].away, response.schedule[i].round>> # matches_unassigned[i]

SameStart(m1, m2) == m1.day = m2.day /\ StartMinute(m1) = StartMinute(m2)

NoTeamTwiceAtOneTime(bound) ==
    \A i, j \in 1..Len(bound) :
        (i # j /\ SharesTeam(bound[i], bound[j])) => ~SameStart(bound[i], bound[j])

\* C12: in every successful run, for any rest >= 0 (rest = 0 included) and
\* any number of fields, no team takes part in two bound matches that start
\* at the same day and time.
C12_NoTeamInTwoMatchesAtOneTime ==
    (Returned /\ RestOf(request) >= 0) => NoTeamTwiceAtOneTime(response.schedule)

\* the same holds as soon as the rest is positive
C12_NoTeamInTwoMatchesAtOneTimeWithRest ==
    (Returned /\ RestOf(request) > 0) => NoTeamTwiceAtOneTime(response.schedule)

\* a schedule was returned for rest 0 on 2 fields where a team plays on both
\* fields at one time
C12_TeamOnTwoFieldsAtOnce ==
    /\ Returned
    /\ RestOf(request) = 0
    /\ request.fields = 2
    /\ ~NoTeamTwiceAtOneTime(response.schedule)

\* one step of the assignment loop keeps or raises every team's last_played,
\* and a match it binds starts no earlier than any match already bound for
\* either of its teams
LastPlayedStep ==
    (pc = "assigning" /\ RestOf(request) >= 0) =>
        /\ \A n \in DOMAIN last_played :
              n \in DOMAIN last_played' /\ last_played'[n] >= last_played[n]
        /\ Len(schedule') = Len(schedule) + 1 =>
              \A k \in 1..Len(schedule) :
                  SharesTeam(schedule[k], schedule'[Len(schedule')]) =>
                      StartMinute(schedule[k]) <= StartMinute(schedule'[Len(schedule')])

PlaysIn(m, name) == name \in {m.home, m.away}

\* a team's match of a round never starts after its match of a later round
\* of the same zone
RoundOrderKept(bound) ==
    \A i, j \in 1..Len(bound) :
        \A name \in {bound[i].home, bound[i].away} :
            (PlaysIn(bound[j], name) /\ bound[i].zone = bound[j].zone
                /\ bound[i].round < bound[j].round) =>
                    StartMinute(bound[i]) <= StartMinute(bound[j])

\* C13: with rest >= 0, during the assignment loop each team's last_played
\* never decreases (a match is never bound to a slot earlier than one already
\* bound for either of its teams), and in the returned schedule every team
\* plays its matches of one zone in non-decreasing round order over time.
C13_LastPlayedNeverDecreases ==
    /\ [][LastPlayedStep]_vars
    /\ []((Returned /\ RestOf(request) >= 0) => RoundOrderKept(response.schedule))

\* the returned match of the pending match at position k
BoundOf(k) ==
    CHOOSE i \in 1..Len(response.schedule) :
        <<response.schedule[i].zone, response.schedule[i].home,
          response.schedule[i].away, response.schedule[i].round>> = matches_unassigned[k]

\* C13 witness: a schedule was returned for a positive rest in which a team
\* plays a later round later, and the loop bound some match to a slot that
\* starts before the slot of a match bound earlier (of other teams)
C13_Witness ==
    /\ Returned
    /\ RestOf(request) > 0
    /\ \E i, j \in 1..Len(response.schedule) :
          /\ PlaysIn(response.schedule[i], "T1")
          /\ PlaysIn(response.schedule[j], "T1")
          /\ response.schedule[i].zone = response.schedule[j].zone
          /\ response.schedule[i].round < response.schedule[j].round
          /\ StartMinute(response.schedule[i]) < StartMinute(response.schedule[j])
    /\ \E a, b \in 1..Len(matches_unassigned) :
          /\ a < b
          /\ StartMinute(response.schedule[BoundOf(b)])
                < StartMinute(response.schedule[BoundOf(a)])

\* the index the Slot Enumerator gave the slot of a returned match
SlotIndexOf(m) ==
    CHOOSE idx \in 0..(Len(timeslot_absolute) - 1) :
        timeslot_absolute[idx + 1][1] = <<m.day, m.time, m.field>>

FinalOrderIsSlotIndexOrder(bound) ==
    \A i, j \in 1..Len(bound) :
        SlotIndexOf(bound[i]) < SlotIndexOf(bound[j]) =>
            bound[i].match_id < bound[j].match_id

\* C14: for any number of fields (10 or more included) the final order of
\* the returned schedule, and so the renumbered match_id, agrees with the
\* slot index order: a match bound to a slot of smaller index has the
\* smaller final match_id.
C14_FinalOrderAgreesWithSlotIndex ==
    Returned => FinalOrderIsSlotIndexOrder(response.schedule)

\* the same holds while the field numbers have one digit
C14_FinalOrderAgreesBelowTenFields ==
    (Returned /\ request.fields < 10) => FinalOrderIsSlotIndexOrder(response.schedule)

\* a schedule was returned on 10 fields in which the match on field c10 is
\* numbered before the match on field c2 of the same time
C14_FieldTenBeforeFieldTwo ==
    /\ Returned
    /\ request.fields = 10
    /\ \E i, j \in 1..Len(response.schedule) :
          /\ response.schedule[i].field = "c10"
          /\ response.schedule[j].field = "c2"
          /\ SameStart(response.schedule[i], response.schedule[j])
          /\ response.schedule[i].match_id < response.schedule[j].match_id

\* a first /generate call answers as generate_fixture taken as one call does
StepsAgreeWithWholeCall ==
    (pc = "responded" /\ request.route = "generate") =>
        LET whole == generate_fixture(read_teams_from_csv(csv), request)
        IN  /\ loaded_teams = whole.teams
            /\ matches_unassigned = whole.pending
            /\ whole.raised <=> response.status = 400
            /\ ~whole.raised => response.schedule = whole.schedule

(***************************************************************************)
(* Claims about the application (checked under SpecApp).                   *)
(***************************************************************************)
\* C8: a /generate or /generate_parts call on the loaded teams gives the
\* zones, the pending matches and the schedule (or the failure) that the
\* same call gives when it is the first one on the teams as imported,
\* whatever calls were served before it.
C8_CallsIndependentOfEarlierCalls ==
    (pc = "responded" /\ request.route # "import_teams" /\ loaded_teams # << >>) =>
        LET imported == read_teams_from_csv(csv)
            first == generate_fixture(imported, request)
            parts == generate_match_list(imported, request.system, request.home_and_away)
        IN  IF request.route = "generate"
            THEN /\ loaded_teams = first.teams
                 /\ matches_unassigned = first.pending
                 /\ first.raised <=> response.status = 400
                 /\ ~first.raised => response.schedule = first.schedule
            ELSE /\ loaded_teams = parts.teams
                 /\ response.matches = parts.match_list

\* a second call was answered on teams whose zones an earlier call had set
C8_SecondCallServed ==
    /\ pc = "responded"
    /\ calls = 2
    /\ request.route = "generate"
    /\ ~request.teams_csv
    /\ loaded_teams # read_teams_from_csv(csv)

====
